---- MODULE Spec2Model ----
(***************************************************************************)
(* Model of the `contains` crate (src/src/lib.rs): the Container trait     *)
(* (does_contain), one implementation per container shape, and the In      *)
(* trait (is_in), the blanket reverse-order shortcut.                      *)
(*                                                                         *)
(* The crate has no state of its own.  The state of the model is one       *)
(* (container, item) pair held by a caller, the outcome of the caller's    *)
(* latest does_contain call and of its latest is_in call on that pair, and *)
(* the number of calls made.  An outcome is "true", "false", or "panic"    *)
(* (the call unwound instead of returning); "none" means no call yet.      *)
(***************************************************************************)
EXTENDS Integers, Sequences, FiniteSets

VARIABLES container_kind, container, item_kind, item, res_dc, res_in, calls

vars == <<container_kind, container, item_kind, item, res_dc, res_in, calls>>

(* ------------------------------ bounds -------------------------------- *)

\* Longest sequence / text container.
MaxLen == 3
\* Longest sub-sequence / text item.
MaxItemLen == 3
\* Sequence elements are 0..MaxElem.
MaxElem == 1
\* Single items, set members, payloads and range bounds are 0..MaxVal.
MaxVal == 2
\* Calls made on one (container, item) pair.
MaxCalls == 3

Elem == 0..MaxElem
Val == 0..MaxVal
\* Characters of the text shapes: one letter in both cases.
Chars == {"H", "h"}

SeqsUpTo(S, n) == UNION {[1..k -> S] : k \in 0..n}

Min(S) == CHOOSE m \in S : \A x \in S : m <= x

\* The in-order content of an ordered set.
RECURSIVE InOrder(_)
InOrder(S) == IF S = {} THEN <<>> ELSE <<Min(S)>> \o InOrder(S \ {Min(S)})

(* ------------------------- container values --------------------------- *)

\* Vec<T>, [T; N], &[T], LinkedList<T>, VecDeque<T>: the elements in order.
Sequences == SeqsUpTo(Elem, MaxLen)
\* Sub-sequence items: &[T] and [T; N1].
SubSequences == SeqsUpTo(Elem, MaxItemLen)
\* HashSet<T>: its members.
HashSets == SUBSET Val
\* BTreeSet<T>: its members in ascending order.
BTreeSets == {InOrder(S) : S \in SUBSET Val}
\* Option<T>
Options == {[tag |-> "None"]} \cup {[tag |-> "Some", val |-> v] : v \in Val}
\* Result<T, U>
Results == {[tag |-> "Ok", val |-> v] : v \in Val}
             \cup {[tag |-> "Err", err |-> u] : u \in Val}
\* &str and String: the characters in order.
Texts == SeqsUpTo(Chars, MaxLen)
TextItems == SeqsUpTo(Chars, MaxItemLen)
\* std::ops::Range, RangeFrom, RangeTo, RangeToInclusive: their public fields.
Ranges == [start : Val, end : Val]
RangeFroms == [start : Val]
RangeTos == [end : Val]
\* std::ops::RangeInclusive: start, end and the private flag `exhausted`,
\* which iteration sets when it yields the last value (start = end then).
RangeInclusives == [start : Val, end : Val, exhausted : {FALSE}]
                     \cup {[start |-> v, end |-> v, exhausted |-> TRUE] : v \in Val}

SequenceKinds == {"Vec", "Array", "Slice"}
LinearKinds == {"Vec", "Array", "Slice", "LinkedList", "VecDeque"}
SubSequenceKinds == {"SliceItem", "ArrayItem"}
TextKinds == {"Str", "String"}

(* --------------------- operations of the std types -------------------- *)

Ret(b) == IF b THEN "true" ELSE "false"

\* A scan that starts one element late.
slice_contains_skip_first(s, x) == \E i \in 2..Len(s) : s[i] = x

\* <[T]>::contains, VecDeque::contains, LinkedList::contains: a linear scan
\* that stops at the first equal element.
RECURSIVE slice_contains(_, _)
slice_contains(s, x) ==
  IF s = <<>> THEN FALSE
  ELSE IF Head(s) = x THEN TRUE
  ELSE slice_contains(Tail(s), x)

\* HashSet::contains
HashSet_contains(s, x) == x \in s

\* BTreeSet::contains: an ordered search that stops at the first larger key.
RECURSIVE BTreeSet_contains(_, _)
BTreeSet_contains(s, x) ==
  IF s = <<>> THEN FALSE
  ELSE IF Head(s) = x THEN TRUE
  ELSE IF Head(s) > x THEN FALSE
  ELSE BTreeSet_contains(Tail(s), x)

Lower(c) == IF c = "H" THEN "h" ELSE c

\* A substring search that folds case before comparing.
str_contains_ignore_case(s, pat) ==
  \E off \in 0..(Len(s) - Len(pat)) :
    \A j \in 1..Len(pat) : Lower(s[off + j]) = Lower(pat[j])

\* str::contains with a &str pattern: the pattern matches at some offset.
str_contains(s, pat) ==
  \E off \in 0..(Len(s) - Len(pat)) :
    \A j \in 1..Len(pat) : s[off + j] = pat[j]

\* Windows that hand back a too-short slice as one short window.
windows_short_tail(s, size) ==
  IF Len(s) >= size
  THEN [k \in 1..(Len(s) - size + 1) |-> SubSeq(s, k, k + size - 1)]
  ELSE <<s>>

\* <[T]>::windows(size) for size > 0: the overlapping windows, in order; none
\* when the slice is shorter than size.  (size = 0 panics, see below.)
windows(s, size) ==
  [k \in 1..(IF Len(s) >= size THEN Len(s) - size + 1 ELSE 0)
     |-> SubSeq(s, k, k + size - 1)]

\* PartialEq of slices: same length and equal element by element.
slice_eq(a, b) == Len(a) = Len(b) /\ \A j \in 1..Len(a) : a[j] = b[j]

\* End bounds that include the end of a half-open range.
end_bound_inclusive(kind, r) ==
  IF kind \in {"Range", "RangeTo", "RangeToInclusive", "RangeInclusive"}
  THEN <<"Included", r.end>>
  ELSE <<"Unbounded">>

\* RangeBounds::start_bound / end_bound of the six range types.
start_bound(kind, r) ==
  IF kind \in {"Range", "RangeFrom", "RangeInclusive"}
  THEN <<"Included", r.start>>
  ELSE <<"Unbounded">>

end_bound(kind, r) ==
  CASE kind = "Range" -> <<"Excluded", r.end>>
    [] kind = "RangeTo" -> <<"Excluded", r.end>>
    [] kind = "RangeToInclusive" -> <<"Included", r.end>>
    [] kind = "RangeInclusive" ->
         IF r.exhausted THEN <<"Excluded", r.end>> ELSE <<"Included", r.end>>
    [] OTHER -> <<"Unbounded">>

\* RangeBounds::contains
RangeBounds_contains(kind, r, x) ==
  LET lo == start_bound(kind, r)
      hi == end_bound(kind, r)
  IN /\ CASE lo[1] = "Included" -> lo[2] <= x
          [] lo[1] = "Excluded" -> lo[2] < x
          [] OTHER -> TRUE
     /\ CASE hi[1] = "Included" -> x <= hi[2]
          [] hi[1] = "Excluded" -> x < hi[2]
          [] OTHER -> TRUE

(* ------------------- the Container implementations -------------------- *)

\* impl<T> Container<T> for Vec<T>
Vec_does_contain(self, x) == Ret(slice_contains(self, x))

\* impl<T> Container<T> for Option<T>
Option_does_contain(self, x) == Ret(self.tag = "Some" /\ self.val = x)

\* A match on the payload of either variant.
Result_does_contain_any_variant(self, x) ==
  Ret(IF self.tag = "Ok" THEN self.val = x ELSE self.err = x)

\* impl<T, U> Container<T> for Result<T, U>
Result_does_contain(self, x) == Ret(self.tag = "Ok" /\ self.val = x)

\* impl<T> Container<T> for HashSet<T>
HashSet_does_contain(self, x) == Ret(HashSet_contains(self, x))

\* impl<T> Container<T> for BTreeSet<T>
BTreeSet_does_contain(self, x) == Ret(BTreeSet_contains(self, x))

\* impl<T> Container<T> for LinkedList<T>
LinkedList_does_contain(self, x) == Ret(slice_contains(self, x))

\* impl<T> Container<T> for VecDeque<T>
VecDeque_does_contain(self, x) == Ret(slice_contains(self, x))

\* impl Container<&str> for &str
Str_does_contain(self, pat) == Ret(str_contains(self, pat))

\* impl Container<&str> for String
String_does_contain(self, pat) == Ret(str_contains(self, pat))

\* impl<T, const N: usize> Container<T> for [T; N]
Array_does_contain(self, x) == Ret(slice_contains(self, x))

\* impl<T> Container<T> for &[T]
Slice_does_contain(self, x) == Ret(slice_contains(self, x))

\* impl<T> Container<&[T]> for &[T]:
\*   self.windows(item.len()).any(|slice| &slice == item)
\* windows panics when its size is zero.
Slice_Slice_does_contain(self, sub) ==
  IF Len(sub) = 0 THEN "panic"
  ELSE LET w == windows(self, Len(sub))
       IN Ret(\E k \in 1..Len(w) : slice_eq(w[k], sub))

\* The five adapters: both sides coerced to slices, then the impl above.
Array_Array_does_contain(self, sub) == Slice_Slice_does_contain(self, sub)
Slice_Array_does_contain(self, sub) == Slice_Slice_does_contain(self, sub)
Array_Slice_does_contain(self, sub) == Slice_Slice_does_contain(self, sub)
Vec_Array_does_contain(self, sub) == Slice_Slice_does_contain(self, sub)
Vec_Slice_does_contain(self, sub) == Slice_Slice_does_contain(self, sub)

\* impl<T> Container<T> for Range<T>
Range_does_contain(self, x) == Ret(RangeBounds_contains("Range", self, x))
\* impl<T> Container<T> for RangeFrom<T>
RangeFrom_does_contain(self, x) == Ret(RangeBounds_contains("RangeFrom", self, x))
\* impl<T> Container<T> for RangeTo<T>
RangeTo_does_contain(self, x) == Ret(RangeBounds_contains("RangeTo", self, x))
\* impl<T> Container<T> for RangeFull
RangeFull_does_contain(self, x) == Ret(RangeBounds_contains("RangeFull", self, x))
\* impl<T> Container<T> for RangeInclusive<T>
RangeInclusive_does_contain(self, x) ==
  Ret(RangeBounds_contains("RangeInclusive", self, x))
\* impl<T> Container<T> for RangeToInclusive<T>
RangeToInclusive_does_contain(self, x) ==
  Ret(RangeBounds_contains("RangeToInclusive", self, x))

\* Container::does_contain: the implementation the compiler selects for the
\* container type and the item type.
does_contain(ck, self, ik, x) ==
  CASE ck = "Vec" /\ ik = "T" -> Vec_does_contain(self, x)
    [] ck = "Option" /\ ik = "T" -> Option_does_contain(self, x)
    [] ck = "Result" /\ ik = "T" -> Result_does_contain(self, x)
    [] ck = "HashSet" /\ ik = "T" -> HashSet_does_contain(self, x)
    [] ck = "BTreeSet" /\ ik = "T" -> BTreeSet_does_contain(self, x)
    [] ck = "LinkedList" /\ ik = "T" -> LinkedList_does_contain(self, x)
    [] ck = "VecDeque" /\ ik = "T" -> VecDeque_does_contain(self, x)
    [] ck = "Str" /\ ik = "StrItem" -> Str_does_contain(self, x)
    [] ck = "String" /\ ik = "StrItem" -> String_does_contain(self, x)
    [] ck = "Array" /\ ik = "T" -> Array_does_contain(self, x)
    [] ck = "Slice" /\ ik = "T" -> Slice_does_contain(self, x)
    [] ck = "Slice" /\ ik = "SliceItem" -> Slice_Slice_does_contain(self, x)
    [] ck = "Array" /\ ik = "ArrayItem" -> Array_Array_does_contain(self, x)
    [] ck = "Slice" /\ ik = "ArrayItem" -> Slice_Array_does_contain(self, x)
    [] ck = "Array" /\ ik = "SliceItem" -> Array_Slice_does_contain(self, x)
    [] ck = "Vec" /\ ik = "ArrayItem" -> Vec_Array_does_contain(self, x)
    [] ck = "Vec" /\ ik = "SliceItem" -> Vec_Slice_does_contain(self, x)
    [] ck = "Range" /\ ik = "T" -> Range_does_contain(self, x)
    [] ck = "RangeFrom" /\ ik = "T" -> RangeFrom_does_contain(self, x)
    [] ck = "RangeTo" /\ ik = "T" -> RangeTo_does_contain(self, x)
    [] ck = "RangeFull" /\ ik = "T" -> RangeFull_does_contain(self, x)
    [] ck = "RangeInclusive" /\ ik = "T" -> RangeInclusive_does_contain(self, x)
    [] ck = "RangeToInclusive" /\ ik = "T" -> RangeToInclusive_does_contain(self, x)

\* A shortcut that answers the opposite of the container's test.
is_in_negated(ik, self, ck, c) ==
  LET r == does_contain(ck, c, ik, self)
  IN IF r = "true" THEN "false" ELSE IF r = "false" THEN "true" ELSE r

\* impl<C, T> In<C> for T where C: Container<T>
is_in(ik, self, ck, c) == does_contain(ck, c, ik, self)

(* --------------------------- the state machine ------------------------ *)

\* The (container type, item type) pairs that have an implementation, with
\* the values of those types.
Inputs ==
  \/ /\ container_kind \in LinearKinds
     /\ container \in Sequences
     /\ item_kind = "T" /\ item \in Val
  \/ /\ container_kind \in SequenceKinds
     /\ container \in Sequences
     /\ item_kind \in SubSequenceKinds /\ item \in SubSequences
  \/ /\ container_kind = "HashSet"
     /\ container \in HashSets
     /\ item_kind = "T" /\ item \in Val
  \/ /\ container_kind = "BTreeSet"
     /\ container \in BTreeSets
     /\ item_kind = "T" /\ item \in Val
  \/ /\ container_kind = "Option"
     /\ container \in Options
     /\ item_kind = "T" /\ item \in Val
  \/ /\ container_kind = "Result"
     /\ container \in Results
     /\ item_kind = "T" /\ item \in Val
  \/ /\ container_kind \in TextKinds
     /\ container \in Texts
     /\ item_kind = "StrItem" /\ item \in TextItems
  \/ /\ container_kind = "Range"
     /\ container \in Ranges
     /\ item_kind = "T" /\ item \in Val
  \/ /\ container_kind = "RangeFrom"
     /\ container \in RangeFroms
     /\ item_kind = "T" /\ item \in Val
  \/ /\ container_kind \in {"RangeTo", "RangeToInclusive"}
     /\ container \in RangeTos
     /\ item_kind = "T" /\ item \in Val
  \/ /\ container_kind = "RangeFull"
     /\ container = <<>>
     /\ item_kind = "T" /\ item \in Val
  \/ /\ container_kind = "RangeInclusive"
     /\ container \in RangeInclusives
     /\ item_kind = "T" /\ item \in Val

Init ==
  /\ Inputs
  /\ res_dc = "none"
  /\ res_in = "none"
  /\ calls = 0

\* A test that consumes the element it looks at.
Call_does_contain_consuming ==
  /\ calls < MaxCalls
  /\ res_dc' = does_contain(container_kind, container, item_kind, item)
  /\ calls' = calls + 1
  /\ container' = IF container_kind \in LinearKinds /\ container # <<>>
                   THEN Tail(container) ELSE container
  /\ UNCHANGED <<container_kind, item_kind, item, res_in>>

\* container.does_contain(&item)
Call_does_contain ==
  /\ calls < MaxCalls
  /\ res_dc' = does_contain(container_kind, container, item_kind, item)
  /\ calls' = calls + 1
  /\ UNCHANGED <<container_kind, container, item_kind, item, res_in>>

\* item.is_in(&container)
Call_is_in ==
  /\ calls < MaxCalls
  /\ res_in' = is_in(item_kind, item, container_kind, container)
  /\ calls' = calls + 1
  /\ UNCHANGED <<container_kind, container, item_kind, item, res_dc>>

Next == Call_does_contain \/ Call_is_in

Spec == Init /\ [][Next]_vars

(* ------------------------------ properties ---------------------------- *)

IsSubSequencePair ==
  container_kind \in SequenceKinds /\ item_kind \in SubSequenceKinds

IsSinglePair(kinds) == container_kind \in kinds /\ item_kind = "T"

\* sub occurs in c as a contiguous run starting at some index.
Occurs(c, sub) ==
  \E i \in 0..(Len(c) - Len(sub)) : SubSeq(c, i + 1, i + Len(sub)) = sub

\* The elements a container of an element-holding shape holds.
Elements(kind, c) == IF kind = "HashSet" THEN c ELSE {c[i] : i \in DOMAIN c}

\* C1: for every sequence container against a sub-sequence item, in every
\* pairing, does_contain is true iff the item occurs in the container as a
\* contiguous, order-preserving run.
C1_SubSequenceIffRun ==
  (IsSubSequencePair /\ res_dc # "none")
    => res_dc = Ret(Occurs(container, item))

\* C2: for every sequence container, an empty sub-sequence item makes
\* does_contain return true.
C2_EmptySubSequenceIsContained ==
  (IsSubSequencePair /\ item = <<>> /\ res_dc # "none") => res_dc = "true"

\* C3: does_contain never fails: the only outcome of a call is a boolean.
C3_NeverFails == res_dc # "panic" /\ res_in # "panic"

\* C4: a sub-sequence item strictly longer than the container scans zero
\* windows and returns false without failing.
C4_LongerItemIsFalse ==
  (IsSubSequencePair /\ Len(item) > Len(container))
    => /\ Len(windows(container, Len(item))) = 0
       /\ res_dc \in {"none", "false"}

C4_Witness ==
  /\ IsSubSequencePair
  /\ Len(item) > Len(container)
  /\ Len(container) > 0
  /\ res_dc = "false"

\* C5: is_in(e, C) gives exactly the outcome of does_contain(C, e), failing
\* only where does_contain fails.
C5_ReverseShortcut ==
  (res_dc # "none" /\ res_in # "none") => res_in = res_dc

C5_Witness ==
  /\ res_dc = "true" /\ res_in = "true"
  /\ container_kind = "Range"

\* C6: for Vec, array, slice, LinkedList, VecDeque, HashSet and BTreeSet and
\* a single item e, does_contain and is_in are true when some element equals
\* e and false when none does.
C6_ElementMembership ==
  IsSinglePair(LinearKinds \cup {"HashSet", "BTreeSet"})
    => LET present == \E e \in Elements(container_kind, container) : e = item
       IN /\ res_dc \in {"none", Ret(present)}
          /\ res_in \in {"none", Ret(present)}

C6_Witness ==
  /\ IsSinglePair({"VecDeque"})
  /\ Len(container) = MaxLen
  /\ container[MaxLen] # item
  /\ container[1] = item
  /\ res_dc = "true" /\ res_in = "true"

\* C7: Option contains item iff it is Some(x) with x = item, None contains
\* nothing; Result contains item iff it is Ok(x) with x = item, and an Err
\* contains nothing even when its payload equals the item.
C7_SingleSlot ==
  /\ (IsSinglePair({"Option"}) /\ res_dc # "none")
       => res_dc = Ret(container = [tag |-> "Some", val |-> item])
  /\ (IsSinglePair({"Result"}) /\ res_dc # "none")
       => res_dc = Ret(container = [tag |-> "Ok", val |-> item])

C7_Witness ==
  /\ IsSinglePair({"Result"})
  /\ container = [tag |-> "Err", err |-> item]
  /\ res_dc = "false"

\* The bound predicates of the five range forms other than a..=b.
RangeRule(kind, r, x) ==
  CASE kind = "Range" -> r.start <= x /\ x < r.end
    [] kind = "RangeFrom" -> r.start <= x
    [] kind = "RangeTo" -> x < r.end
    [] kind = "RangeToInclusive" -> x <= r.end
    [] kind = "RangeFull" -> TRUE

OtherRangeKinds ==
  {"Range", "RangeFrom", "RangeTo", "RangeToInclusive", "RangeFull"}

\* C8 as stated: a..b contains x iff a <= x < b, a..=b iff a <= x <= b,
\* a.. iff a <= x, ..b iff x < b, ..=b iff x <= b, and .. contains every x.
C8_RangeBoundsAsStated ==
  /\ (IsSinglePair(OtherRangeKinds) /\ res_dc # "none")
       => res_dc = Ret(RangeRule(container_kind, container, item))
  /\ (IsSinglePair({"RangeInclusive"}) /\ res_dc # "none")
       => res_dc = Ret(container.start <= item /\ item <= container.end)

\* C8 amended: as stated, except that a..=b contains x iff a <= x <= b only
\* while iteration has not exhausted it; once exhausted it contains nothing.
C8_RangeBounds ==
  /\ (IsSinglePair(OtherRangeKinds) /\ res_dc # "none")
       => res_dc = Ret(RangeRule(container_kind, container, item))
  /\ (IsSinglePair({"RangeInclusive"}) /\ res_dc # "none")
       => res_dc = Ret(/\ ~container.exhausted
                       /\ container.start <= item
                       /\ item <= container.end)

C8_Witness ==
  /\ IsSinglePair({"Range"})
  /\ container.start < container.end
  /\ item = container.end
  /\ res_dc = "false"

\* C9: for &str and String and a text item, does_contain is true iff the item
\* occurs as a contiguous substring, characters compared exactly; an empty
\* item is contained in every text.
C9_Substring ==
  (container_kind \in TextKinds /\ res_dc # "none")
    => /\ res_dc = Ret(Occurs(container, item))
       /\ item = <<>> => res_dc = "true"

C9_Witness ==
  /\ container_kind \in TextKinds
  /\ container = <<"h", "H", "h">>
  /\ item = <<"H", "H">>
  /\ res_dc = "false"

====
